---- MODULE Spec2Model ----
(***************************************************************************)
(* A model of earthquakes.py: the record accessors, the aggregators, and   *)
(* the fetch / save / parse / aggregate / plot pipeline of main().         *)
(*                                                                         *)
(* Representation.  A JSON value that may be a number, null, or missing    *)
(* from its object is a record [t, n] with t in "num", "null", "absent".   *)
(* Magnitudes are whole numbers (a unit of magnitude); a mean is the exact *)
(* fraction [num, den] in lowest terms, NaN being [num |-> 0, den |-> 0].  *)
(* A millisecond timestamp does not fit a 32-bit integer, so properties    *)
(* .time is kept as [sec, ms], standing for sec * 1000 + ms.               *)
(***************************************************************************)
EXTENDS Integers, Sequences, FiniteSets

\* ---------------------------------------------------------------- bounds
MaxRecords == 3

MaxCoords == 3

\* ---------------------------------------------------------------- values
Num(n) == [t |-> "num", n |-> n]

Null == [t |-> "null", n |-> 0]

Absent == [t |-> "absent", n |-> 0]

IsNum(v) == v.t = "num"

TimeMs(sec, ms) == [t |-> "num", sec |-> sec, ms |-> ms]

NoTime == [t |-> "absent", sec |-> 0, ms |-> 0]

Coords(xs) == [t |-> "list", xs |-> xs]

NoCoords == [t |-> "absent", xs |-> << >>]

Quake(mag, time, coords) == [mag |-> mag, time |-> time, coords |-> coords]

\* ---------------------------------------------------------------- inputs
\* Magnitudes of the sample feed.
Mags == {1, 2, 3}

\* An event one second before 2001 (UTC) at [lon, lat, alt], and one half an
\* hour before 2002 (UTC) at [lon, lat]: 2000-12-31T23:59:59.999Z and
\* 2001-12-31T23:30:00.000Z, so that the local year depends on the UTC offset
\* of the machine.
Events ==
    {[time |-> TimeMs(978307199, 999), site |-> Coords(<<10, 20, 5>>)],
     [time |-> TimeMs(1009841400, 0), site |-> Coords(<<11, 21>>)]}

\* UTC offsets (seconds) of the machine's local time zone.
TzOffsets == {0, 3600}

\* groupby(...).mean() of a column of dtype object (no number in the whole
\* column): NaN per group, or DataError, depending on the pandas installed.
ObjectMeans == {"nan", "DataError"}

\* Well-formed records, and a record with a null magnitude.
GoodRecords == {Quake(Num(m), e.time, e.site) : m \in Mags, e \in Events}

NullMagRecords == {Quake(Null, TimeMs(978307199, 999), Coords(<<10, 20, 5>>))}

\* Records with one field missing or too short, as small or as large as the
\* well-formed ones.
BadRecords ==
    {Quake(Absent, TimeMs(978307199, 999), Coords(<<11, 21>>)),
     Quake(Num(2), NoTime, Coords(<<11, 21>>))}
    \cup {Quake(Num(m), TimeMs(978307199, 999), c) :
            m \in {1, 3}, c \in {NoCoords, Coords(<<12>>)}}

SeqsUpTo(S, n) == UNION {[1..k -> S] : k \in 0..n}

\* ---------------------------------------------------------------- state
VARIABLES
    pc,             \* position in main(), or "calls" / "loc" for direct calls
    tz,             \* UTC offset of the local time zone
    objmean,        \* what the installed pandas makes of a mean over objects
    fetches,        \* number of requests.get calls issued
    response,       \* the response of the feed
    rawfile,        \* earthquakes_data.json
    data,           \* the parsed response
    total,          \* result of count_earthquakes
    maximum,        \* result of get_maximum
    yearly_counts,  \* result of earthquakes_per_year
    yearly_avg_mag, \* result of average_magnitude_per_year
    location,       \* result of get_location
    charts,         \* chart files saved
    error           \* the exception that ended the run

vars == <<pc, tz, objmean, fetches, response, rawfile, data, total, maximum,
          yearly_counts, yearly_avg_mag, location, charts, error>>

\* ------------------------------------------------------ results and errors
Ok(v) == [st |-> "ok", v |-> v]

Raise(e, v) == [st |-> e, v |-> v]

NotCalled(v) == [st |-> "none", v |-> v]

\* The status of the first result of rs that is an exception.
FirstError(rs) ==
    LET i == CHOOSE k \in 1..Len(rs) :
                 rs[k].st # "ok" /\ \A j \in 1..(k - 1) : rs[j].st = "ok"
    IN rs[i].st

AllOk(rs) == \A i \in 1..Len(rs) : rs[i].st = "ok"

\* --------------------------------------------------------- record accessors
\* earthquake['properties']['mag']
get_magnitude(earthquake) ==
    IF earthquake.mag.t = "absent" THEN Raise("KeyError", Null)
    ELSE Ok(earthquake.mag)

\* get_location returning (longitude, latitude).
get_location_lonlat(earthquake) ==
    LET coordinates == earthquake.coords IN
    IF coordinates.t = "absent" THEN Raise("KeyError", <<0, 0>>)
    ELSE IF Len(coordinates.xs) < 2 THEN Raise("IndexError", <<0, 0>>)
    ELSE Ok(<<coordinates.xs[1], coordinates.xs[2]>>)

\* (coordinates[1], coordinates[0]) of earthquake['geometry']['coordinates']
get_location(earthquake) ==
    LET coordinates == earthquake.coords IN
    IF coordinates.t = "absent" THEN Raise("KeyError", <<0, 0>>)
    ELSE IF Len(coordinates.xs) < 1 THEN Raise("IndexError", <<0, 0>>)
    ELSE LET longitude == coordinates.xs[1] IN
         IF Len(coordinates.xs) < 2 THEN Raise("IndexError", <<0, 0>>)
         ELSE LET latitude == coordinates.xs[2] IN
              Ok(<<latitude, longitude>>)

\* The year of proleptic Gregorian ordinal n (1 is 1 January of year 1), as
\* datetime finds it: whole cycles of 400, 100 and 4 years, then whole years.
ord2year(n) ==
    LET n400 == (n - 1) \div 146097
        r400 == (n - 1) % 146097
        n100 == r400 \div 36524
        r100 == r400 % 36524
        n4 == r100 \div 1461
        r4 == r100 % 1461
        n1 == r4 \div 365
        year == n400 * 400 + 1 + n100 * 100 + n4 * 4 + n1
    IN IF n1 = 4 \/ n100 = 4 THEN year - 1 ELSE year

\* datetime.fromtimestamp(seconds).year in a zone `offset` seconds east of
\* UTC; 1 January 1970 is ordinal 719163.
fromtimestamp_year(seconds, offset) ==
    ord2year(719163 + (seconds + offset) \div 86400)

\* get_year reading earthquake['properties'].get('time', 0).
get_year_lenient(earthquake, offset) ==
    LET timestamp == earthquake.time IN
    IF timestamp.t = "absent" THEN Ok(fromtimestamp_year(0, offset))
    ELSE Ok(fromtimestamp_year(timestamp.sec, offset))

\* timestamp / 1000 is sec + ms / 1000 seconds, of which the year needs the
\* whole part, sec.
get_year(earthquake, offset) ==
    LET timestamp == earthquake.time IN
    IF timestamp.t = "absent" THEN Raise("KeyError", 0)
    ELSE Ok(fromtimestamp_year(timestamp.sec, offset))

\* ------------------------------------------------------------------ pandas
\* A Series is a sequence of [key, val] rows in index order.
Row(k, v) == [key |-> k, val |-> v]

Insert(s, x, p) == SubSeq(s, 1, p - 1) \o <<x>> \o SubSeq(s, p, Len(s))

Occurrences(xs, x) == Cardinality({i \in 1..Len(xs) : xs[i] = x})

RECURSIVE Unique(_)
\* The distinct elements of xs in order of first appearance.
Unique(xs) ==
    IF xs = << >> THEN << >>
    ELSE LET r == Unique(SubSeq(xs, 1, Len(xs) - 1))
             x == xs[Len(xs)]
         IN IF \E i \in 1..Len(r) : r[i] = x THEN r ELSE Append(r, x)

RECURSIVE SortByCountDesc(_)
\* A stable sort of a Series by value, largest first.
SortByCountDesc(s) ==
    IF s = << >> THEN << >>
    ELSE LET r == SortByCountDesc(Tail(s))
             x == Head(s)
         IN Insert(r, x, 1 + Cardinality({i \in 1..Len(r) : r[i].val > x.val}))

\* value_counts of the distinct values only, as of Series(set(xs)).
value_counts_unique(xs) ==
    LET u == Unique(xs) IN
    SortByCountDesc([i \in 1..Len(u) |-> Row(u[i], 1)])

\* Series(xs).value_counts(): one row per distinct value, most frequent first.
value_counts(xs) ==
    LET u == Unique(xs) IN
    SortByCountDesc([i \in 1..Len(u) |-> Row(u[i], Occurrences(xs, u[i]))])

RECURSIVE sort_index(_)
\* Series.sort_index(): a stable sort of the rows by key, smallest first.
sort_index(s) ==
    IF s = << >> THEN << >>
    ELSE LET r == sort_index(Tail(s))
             x == Head(s)
         IN Insert(r, x, 1 + Cardinality({i \in 1..Len(r) : r[i].key < x.key}))

RECURSIVE Gcd(_, _)
Gcd(a, b) == IF b = 0 THEN a ELSE Gcd(b, a % b)

Frac(n, d) == LET g == Gcd(n, d) IN [num |-> n \div g, den |-> d \div g]

NaN == [num |-> 0, den |-> 0]

RECURSIVE SumOf(_)
SumOf(ns) == IF ns = << >> THEN 0 ELSE Head(ns) + SumOf(Tail(ns))

\* Series.mean(): null (NaN) entries are skipped; NaN when nothing is left.
mean(vals) ==
    LET present == SelectSeq(vals, IsNum)
        ns == [i \in 1..Len(present) |-> present[i].n]
    IN IF Len(present) = 0 THEN NaN ELSE Frac(SumOf(ns), Len(present))

RECURSIVE SortedSeq(_)
\* The elements of a set of integers, smallest first.
SortedSeq(S) ==
    IF S = {} THEN << >>
    ELSE LET m == CHOOSE x \in S : \A y \in S : x <= y
         IN <<m>> \o SortedSeq(S \ {m})

\* groupby(...).mean().dropna(): the groups without a number are dropped.
groupby_mean_dropna(pairs) ==
    LET keys == SortedSeq({pairs[i].key : i \in 1..Len(pairs)})
        Group(k) == SelectSeq(pairs, LAMBDA p : p.key = k)
        Vals(k) == [i \in 1..Len(Group(k)) |-> Group(k)[i].val]
        rows == [j \in 1..Len(keys) |-> Row(keys[j], mean(Vals(keys[j])))]
    IN SelectSeq(rows, LAMBDA r : r.val.den # 0)

\* df.groupby('year')['magnitude'].mean() over rows [key |-> year, val |-> mag]:
\* one row per distinct year, the group keys sorted.
groupby_mean(pairs) ==
    LET keys == SortedSeq({pairs[i].key : i \in 1..Len(pairs)})
        Group(k) == SelectSeq(pairs, LAMBDA p : p.key = k)
        Vals(k) == [i \in 1..Len(Group(k)) |-> Group(k)[i].val]
    IN [j \in 1..Len(keys) |-> Row(keys[j], mean(Vals(keys[j])))]

\* ------------------------------------------------------------- aggregators
NoFeatures == [loaded |-> TRUE, hasFeatures |-> FALSE, features |-> << >>]

FeatureCollection(fs) == [loaded |-> TRUE, hasFeatures |-> TRUE, features |-> fs]

NotLoaded == [loaded |-> FALSE, hasFeatures |-> FALSE, features |-> << >>]

\* len(data['features'])
count_earthquakes(d) ==
    IF ~d.hasFeatures THEN Raise("KeyError", 0) ELSE Ok(Len(d.features))

RECURSIVE MaxScan_last(_, _, _)
\* max() replacing the largest so far on >=: the last of equal items wins.
MaxScan_last(es, i, best) ==
    IF i > Len(es) THEN Ok(best)
    ELSE LET k == get_magnitude(es[i]) IN
         IF k.st # "ok" THEN Raise(k.st, i)
         ELSE IF best = 0 THEN MaxScan_last(es, i + 1, i)
         ELSE IF ~IsNum(k.v) \/ ~IsNum(es[best].mag) THEN Raise("TypeError", i)
         ELSE IF k.v.n >= es[best].mag.n THEN MaxScan_last(es, i + 1, i)
         ELSE MaxScan_last(es, i + 1, best)

RECURSIVE MaxScan(_, _, _)
\* max(earthquakes, key=get_magnitude) from item i on, `best` being the index
\* of the largest item so far (0: none yet).  An item replaces the largest so
\* far when its key is greater; comparing with null raises TypeError.
MaxScan(es, i, best) ==
    IF i > Len(es) THEN Ok(best)
    ELSE LET k == get_magnitude(es[i]) IN
         IF k.st # "ok" THEN Raise(k.st, i)
         ELSE IF best = 0 THEN MaxScan(es, i + 1, i)
         ELSE IF ~IsNum(k.v) \/ ~IsNum(es[best].mag) THEN Raise("TypeError", i)
         ELSE IF k.v.n > es[best].mag.n THEN MaxScan(es, i + 1, i)
         ELSE MaxScan(es, i + 1, best)

MaxResult(m, loc) == [mag |-> m, loc |-> loc]

NoMax == MaxResult(Null, <<0, 0>>)

\* A result of get_maximum with the number of accessor calls it took.
Traced(r, n) == [st |-> r.st, v |-> r.v, calls |-> n]

\* get_maximum without its test for an empty list: max() of an empty list
\* raises ValueError.
get_maximum_unguarded(d) ==
    IF ~d.hasFeatures THEN Traced(Raise("KeyError", NoMax), 0)
    ELSE LET earthquakes == d.features IN
         IF earthquakes = << >> THEN Traced(Raise("ValueError", NoMax), 0)
         ELSE LET scan == MaxScan(earthquakes, 1, 0) IN
              IF scan.st # "ok" THEN Traced(Raise(scan.st, NoMax), scan.v)
              ELSE LET max_location == get_location(earthquakes[scan.v])
                   IN IF max_location.st # "ok"
                      THEN Traced(Raise(max_location.st, NoMax), Len(earthquakes) + 2)
                      ELSE Traced(Ok(MaxResult(earthquakes[scan.v].mag, max_location.v)),
                                  Len(earthquakes) + 2)

\* max() calls get_magnitude once per item until one raises; then come
\* get_magnitude and get_location of the item found.
get_maximum(d) ==
    IF ~d.hasFeatures THEN Traced(Raise("KeyError", NoMax), 0)
    ELSE LET earthquakes == d.features IN
         IF earthquakes = << >> THEN Traced(Ok(MaxResult(Num(0), <<0, 0>>)), 0)
         ELSE LET scan == MaxScan(earthquakes, 1, 0) IN
              IF scan.st # "ok" THEN Traced(Raise(scan.st, NoMax), scan.v)
              ELSE LET max_earthquake == earthquakes[scan.v]
                       max_magnitude == get_magnitude(max_earthquake)
                       max_location == get_location(max_earthquake)
                   IN IF max_location.st # "ok"
                      THEN Traced(Raise(max_location.st, NoMax), Len(earthquakes) + 2)
                      ELSE Traced(Ok(MaxResult(max_magnitude.v, max_location.v)),
                                  Len(earthquakes) + 2)

\* earthquakes_per_year without .sort_index().
earthquakes_per_year_unsorted(d, offset) ==
    IF ~d.hasFeatures THEN Raise("KeyError", << >>)
    ELSE LET earthquakes == d.features
             got == [i \in 1..Len(earthquakes) |-> get_year(earthquakes[i], offset)]
         IN IF ~AllOk(got) THEN Raise(FirstError(got), << >>)
            ELSE Ok(value_counts([i \in 1..Len(got) |-> got[i].v]))

earthquakes_per_year(d, offset) ==
    IF ~d.hasFeatures THEN Raise("KeyError", << >>)
    ELSE LET earthquakes == d.features
             got == [i \in 1..Len(earthquakes) |-> get_year(earthquakes[i], offset)]
         IN IF ~AllOk(got) THEN Raise(FirstError(got), << >>)
            ELSE LET years == [i \in 1..Len(got) |-> got[i].v]
                 IN Ok(sort_index(value_counts(years)))

\* The magnitude column of DataFrame(year_mag_pairs) is float64, null turned
\* into NaN, when some magnitude is a number, and of dtype object otherwise.
average_magnitude_per_year(d, offset, om) ==
    IF ~d.hasFeatures THEN Raise("KeyError", << >>)
    ELSE LET earthquakes == d.features
             yrs == [i \in 1..Len(earthquakes) |-> get_year(earthquakes[i], offset)]
             mgs == [i \in 1..Len(earthquakes) |-> get_magnitude(earthquakes[i])]
         IN IF ~AllOk(yrs) \/ ~AllOk(mgs) THEN Raise("KeyError", << >>)
            ELSE LET year_mag_pairs ==
                         [i \in 1..Len(earthquakes) |-> Row(yrs[i].v, mgs[i].v)]
                     is_object == \A i \in 1..Len(mgs) : ~IsNum(mgs[i].v)
                 IN IF is_object /\ om = "DataError" THEN Raise("DataError", << >>)
                    ELSE Ok(groupby_mean(year_mag_pairs))

\* ------------------------------------------------------------ the feed
NotJson == [kind |-> "notjson", doc |-> NotLoaded]

JsonDoc(d) == [kind |-> "json", doc |-> d]

NoResponse == [kind |-> "none", doc |-> NotLoaded]

\* Records the feed may hold: well-formed ones of every magnitude, two at
\* another time and site, one with a null magnitude, and the defective ones.
FeedRecords ==
    {Quake(Num(m), TimeMs(978307199, 999), Coords(<<10, 20, 5>>)) : m \in Mags}
    \cup {Quake(Num(2), TimeMs(1009841400, 0), Coords(<<11, 21>>)),
          Quake(Num(1), TimeMs(1009841400, 0), Coords(<<11, 21>>))}
    \cup NullMagRecords \cup BadRecords

\* Response bodies: text that is no JSON (an error page), a JSON document
\* without 'features', and feature collections.
Responses ==
    {NotJson, JsonDoc(NoFeatures)}
    \cup {JsonDoc(FeatureCollection(fs)) : fs \in SeqsUpTo(FeedRecords, MaxRecords)}

\* Collections handed to the aggregators directly.
CallRecords == GoodRecords \cup NullMagRecords

\* Components of a coordinate list.
CoordNums == {5, 10, 20}

NoFile == [st |-> "absent", body |-> NoResponse, full |-> FALSE]

FreqPath == "earthquake_frequency.png"

MagPath == "average_magnitude.png"

\* ------------------------------------------------------------------- Init
InitResults ==
    /\ total = NotCalled(0)
    /\ maximum = Traced(NotCalled(NoMax), 0)
    /\ yearly_counts = NotCalled(<< >>)
    /\ yearly_avg_mag = NotCalled(<< >>)
    /\ location = NotCalled(<<0, 0>>)

\* A run of the program: main() is about to start.
Init ==
    /\ pc = "start"
    /\ tz \in TzOffsets
    /\ objmean \in ObjectMeans
    /\ fetches = 0
    /\ response = NoResponse
    /\ rawfile = NoFile
    /\ data = NotLoaded
    /\ InitResults
    /\ charts = {}
    /\ error = "none"

\* The aggregators called directly on a collection.
InitCalls ==
    /\ pc = "calls"
    /\ tz \in TzOffsets
    /\ objmean \in ObjectMeans
    /\ fetches = 0
    /\ response = NoResponse
    /\ rawfile = NoFile
    /\ \E fs \in SeqsUpTo(CallRecords, MaxRecords) : data = FeatureCollection(fs)
    /\ InitResults
    /\ charts = {}
    /\ error = "none"

\* get_location called directly on one record.
InitLoc ==
    /\ pc = "loc"
    /\ tz \in TzOffsets
    /\ objmean \in ObjectMeans
    /\ fetches = 0
    /\ response = NoResponse
    /\ rawfile = NoFile
    /\ \E c \in {NoCoords} \cup {Coords(xs) : xs \in SeqsUpTo(CoordNums, MaxCoords)} :
           data = FeatureCollection(<<Quake(Num(1), TimeMs(978307199, 999), c)>>)
    /\ InitResults
    /\ charts = {}
    /\ error = "none"

\* ------------------------------------------------------------- get_data()
Abort(e) == pc' = "error" /\ error' = e

\* requests.get(...): one request; it raises, or returns a response.
get_data_request ==
    /\ pc = "start"
    /\ fetches' = fetches + 1
    /\ \/ /\ Abort("ConnectionError")
          /\ UNCHANGED response
       \/ /\ \E r \in Responses : response' = r
          /\ pc' = "fetched"
          /\ UNCHANGED error
    /\ UNCHANGED <<tz, objmean, rawfile, data, total, maximum, yearly_counts,
                   yearly_avg_mag, location, charts>>

\* open("earthquakes_data.json", "w")
get_data_open ==
    /\ pc = "fetched"
    /\ \/ /\ Abort("OSError")
          /\ UNCHANGED rawfile
       \/ /\ rawfile' = [st |-> "open", body |-> NoResponse, full |-> FALSE]
          /\ pc' = "opened"
          /\ UNCHANGED error
    /\ UNCHANGED <<tz, objmean, fetches, response, data, total, maximum, yearly_counts,
                   yearly_avg_mag, location, charts>>

\* f.write(text); when it raises, the with block closes the file on the way out.
get_data_write ==
    /\ pc = "opened"
    /\ \/ /\ Abort("OSError")
          /\ rawfile' = [rawfile EXCEPT !.st = "closed"]
       \/ /\ rawfile' = [rawfile EXCEPT !.body = response, !.full = TRUE]
          /\ pc' = "written"
          /\ UNCHANGED error
    /\ UNCHANGED <<tz, objmean, fetches, response, data, total, maximum, yearly_counts,
                   yearly_avg_mag, location, charts>>

\* the end of the with block
get_data_close ==
    /\ pc = "written"
    /\ rawfile' = [rawfile EXCEPT !.st = "closed"]
    /\ pc' = "saved"
    /\ UNCHANGED <<tz, objmean, fetches, response, data, total, maximum, yearly_counts,
                   yearly_avg_mag, location, charts, error>>

\* json.loads(text) moved before the with block that saves the text.
get_data_loads_early ==
    /\ pc = "fetched"
    /\ IF response.kind = "json"
       THEN data' = response.doc /\ pc' = "loaded" /\ UNCHANGED error
       ELSE Abort("JSONDecodeError") /\ UNCHANGED data
    /\ UNCHANGED <<tz, objmean, fetches, response, rawfile, total, maximum, yearly_counts,
                   yearly_avg_mag, location, charts>>

\* data = json.loads(text)
get_data_loads ==
    /\ pc = "saved"
    /\ IF response.kind = "json"
       THEN data' = response.doc /\ pc' = "loaded" /\ UNCHANGED error
       ELSE Abort("JSONDecodeError") /\ UNCHANGED data
    /\ UNCHANGED <<tz, objmean, fetches, response, rawfile, total, maximum, yearly_counts,
                   yearly_avg_mag, location, charts>>

\* ----------------------------------------------------------------- main()
Step(r, next) ==
    IF r.st = "ok" THEN pc' = next /\ UNCHANGED error ELSE Abort(r.st)

main_count_earthquakes ==
    /\ pc = "loaded"
    /\ total' = count_earthquakes(data)
    /\ Step(total', "counted")
    /\ UNCHANGED <<tz, objmean, fetches, response, rawfile, data, maximum, yearly_counts,
                   yearly_avg_mag, location, charts>>

main_get_maximum ==
    /\ pc = "counted"
    /\ maximum' = get_maximum(data)
    /\ Step(maximum', "maximum")
    /\ UNCHANGED <<tz, objmean, fetches, response, rawfile, data, total, yearly_counts,
                   yearly_avg_mag, location, charts>>

main_earthquakes_per_year ==
    /\ pc = "maximum"
    /\ yearly_counts' = earthquakes_per_year(data, tz)
    /\ Step(yearly_counts', "counts")
    /\ UNCHANGED <<tz, objmean, fetches, response, rawfile, data, total, maximum,
                   yearly_avg_mag, location, charts>>

main_average_magnitude_per_year ==
    /\ pc = "counts"
    /\ yearly_avg_mag' = average_magnitude_per_year(data, tz, objmean)
    /\ Step(yearly_avg_mag', "averages")
    /\ UNCHANGED <<tz, objmean, fetches, response, rawfile, data, total, maximum,
                   yearly_counts, location, charts>>

\* plot_frequency(yearly_counts): savefig to the default path
main_plot_frequency ==
    /\ pc = "averages"
    /\ charts' = charts \cup {FreqPath}
    /\ pc' = "frequency"
    /\ UNCHANGED <<tz, objmean, fetches, response, rawfile, data, total, maximum,
                   yearly_counts, yearly_avg_mag, location, error>>

\* plot_magnitude(yearly_avg_mag): savefig to the default path; main returns
main_plot_magnitude ==
    /\ pc = "frequency"
    /\ charts' = charts \cup {MagPath}
    /\ pc' = "done"
    /\ UNCHANGED <<tz, objmean, fetches, response, rawfile, data, total, maximum,
                   yearly_counts, yearly_avg_mag, location, error>>

Next ==
    \/ get_data_request
    \/ get_data_open
    \/ get_data_write
    \/ get_data_close
    \/ get_data_loads
    \/ main_count_earthquakes
    \/ main_get_maximum
    \/ main_earthquakes_per_year
    \/ main_average_magnitude_per_year
    \/ main_plot_frequency
    \/ main_plot_magnitude

Spec == Init /\ [][Next]_vars

\* ------------------------------------------------------------ direct calls
call_count_earthquakes ==
    /\ pc = "calls"
    /\ total' = count_earthquakes(data)
    /\ UNCHANGED <<pc, tz, objmean, fetches, response, rawfile, data, maximum,
                   yearly_counts, yearly_avg_mag, location, charts, error>>

call_get_maximum ==
    /\ pc = "calls"
    /\ maximum' = get_maximum(data)
    /\ UNCHANGED <<pc, tz, objmean, fetches, response, rawfile, data, total,
                   yearly_counts, yearly_avg_mag, location, charts, error>>

\* earthquakes_per_year sorting data['features'] in place by time (a stable
\* earthquakes.sort) before it counts.
call_earthquakes_per_year_sorting ==
    /\ pc = "calls"
    /\ yearly_counts' = earthquakes_per_year(data, tz)
    /\ LET fs == data.features
           rank(i) == Cardinality({j \in 1..Len(fs) :
                          \/ fs[j].time.sec < fs[i].time.sec
                          \/ fs[j].time.sec = fs[i].time.sec /\ j < i})
       IN data' = [data EXCEPT !.features =
                       [r \in 1..Len(fs) |-> fs[CHOOSE i \in 1..Len(fs) : rank(i) = r - 1]]]
    /\ UNCHANGED <<pc, tz, objmean, fetches, response, rawfile, total, maximum,
                   yearly_avg_mag, location, charts, error>>

call_earthquakes_per_year ==
    /\ pc = "calls"
    /\ yearly_counts' = earthquakes_per_year(data, tz)
    /\ UNCHANGED <<pc, tz, objmean, fetches, response, rawfile, data, total, maximum,
                   yearly_avg_mag, location, charts, error>>

call_average_magnitude_per_year ==
    /\ pc = "calls"
    /\ yearly_avg_mag' = average_magnitude_per_year(data, tz, objmean)
    /\ UNCHANGED <<pc, tz, objmean, fetches, response, rawfile, data, total, maximum,
                   yearly_counts, location, charts, error>>

NextCalls ==
    \/ call_count_earthquakes
    \/ call_get_maximum
    \/ call_earthquakes_per_year
    \/ call_average_magnitude_per_year

SpecCalls == InitCalls /\ [][NextCalls]_vars

call_get_location ==
    /\ pc = "loc"
    /\ location' = get_location(data.features[1])
    /\ UNCHANGED <<pc, tz, objmean, fetches, response, rawfile, data, total, maximum,
                   yearly_counts, yearly_avg_mag, charts, error>>

NextLoc == call_get_location

SpecLoc == InitLoc /\ [][NextLoc]_vars

\* ================================================================== claims
features == data.features

Idx == 1..Len(features)

\* The year derived from record i.
YearAt(i) == get_year(features[i], tz).v

Keys(series) == {series[i].key : i \in 1..Len(series)}

AllNumeric == \A i \in Idx : IsNum(features[i].mag)

\* C1: on a non-empty collection get_maximum returns (m, loc) with m >= every
\* magnitude, m and loc being the magnitude and the (latitude, longitude) of
\* the first record whose magnitude is m; and it does return when every
\* magnitude is a number.
C1_MaximumIsFirstGreatest ==
    (pc = "calls" /\ maximum.st # "none" /\ features # << >>) =>
        /\ AllNumeric => maximum.st = "ok"
        /\ maximum.st = "ok" =>
             \E i \in Idx :
                /\ features[i].mag = maximum.v.mag
                /\ \A j \in 1..(i - 1) : features[j].mag # maximum.v.mag
                /\ maximum.v.loc = <<features[i].coords.xs[2], features[i].coords.xs[1]>>
                /\ \A j \in Idx : IsNum(features[j].mag) =>
                       IsNum(maximum.v.mag) /\ maximum.v.mag.n >= features[j].mag.n

\* Two records at different places share the greatest magnitude, and
\* get_maximum has returned.
C1_Witness ==
    /\ pc = "calls" /\ maximum.st = "ok" /\ Len(features) = 3
    /\ features[2].mag = features[3].mag
    /\ features[2].coords # features[3].coords
    /\ IsNum(features[1].mag) /\ IsNum(features[2].mag)
    /\ features[1].mag.n < features[2].mag.n

RECURSIVE SumVals(_)
SumVals(series) ==
    IF series = << >> THEN 0 ELSE Head(series).val + SumVals(Tail(series))

\* C2: the per-year counts of earthquakes_per_year add up to the total of
\* count_earthquakes, each record counted under one year only (the keys are
\* distinct and every record's year is a key).
C2_CountsSumToTotal ==
    (pc = "calls" /\ total.st # "none" /\ yearly_counts.st # "none") =>
        /\ total.st = "ok" /\ yearly_counts.st = "ok"
        /\ SumVals(yearly_counts.v) = total.v
        /\ total.v = Len(features)
        /\ Cardinality(Keys(yearly_counts.v)) = Len(yearly_counts.v)
        /\ \A i \in Idx : YearAt(i) \in Keys(yearly_counts.v)

\* Three records in two years, both functions called.
C2_Witness ==
    /\ pc = "calls" /\ total = Ok(3) /\ yearly_counts.st = "ok"
    /\ Len(yearly_counts.v) = 2

Sentinel == MaxResult(Num(0), <<0, 0>>)

\* C4: get_maximum of an empty collection returns (0, (0, 0)), does not
\* raise and calls no accessor; and it returns that pair for no collection
\* of the feed that has a record, for which it does call the accessors.
C4_EmptyGivesSentinel ==
    (pc = "calls" /\ maximum.st # "none") =>
        /\ features = << >> =>
              maximum.st = "ok" /\ maximum.v = Sentinel /\ maximum.calls = 0
        /\ (maximum.st = "ok" /\ maximum.v = Sentinel) => features = << >>
        /\ features # << >> => maximum.calls > 0

C4_Witness ==
    pc = "calls" /\ features = << >> /\ maximum.st = "ok" /\ maximum.calls = 0

Ascending(series) ==
    \A i \in 1..Len(series) : \A j \in 1..Len(series) :
        i < j => series[i].key < series[j].key

\* C6: whatever the order of the records, the keys of earthquakes_per_year
\* and of average_magnitude_per_year are in strictly ascending order of year.
C6_KeysAscending ==
    pc = "calls" =>
        /\ yearly_counts.st = "ok" => Ascending(yearly_counts.v)
        /\ yearly_avg_mag.st = "ok" => Ascending(yearly_avg_mag.v)

\* A later year comes first in the collection and is the more frequent one;
\* both functions have returned.
C6_Witness ==
    /\ pc = "calls" /\ Len(features) = 3
    /\ YearAt(1) > YearAt(3) /\ YearAt(2) = YearAt(1)
    /\ yearly_counts.st = "ok" /\ yearly_avg_mag.st = "ok"
    /\ Len(yearly_counts.v) = 2 /\ Len(yearly_avg_mag.v) = 2

\* C7: the keys of earthquakes_per_year and of average_magnitude_per_year are
\* both the set of the years of the records, and every count is at least 1.
C7_KeysAreTheYears ==
    pc = "calls" =>
        /\ yearly_counts.st = "ok" =>
             /\ Keys(yearly_counts.v) = {YearAt(i) : i \in Idx}
             /\ \A r \in 1..Len(yearly_counts.v) : yearly_counts.v[r].val >= 1
        /\ yearly_avg_mag.st = "ok" =>
             Keys(yearly_avg_mag.v) = {YearAt(i) : i \in Idx}
        /\ (yearly_counts.st = "ok" /\ yearly_avg_mag.st = "ok") =>
             Keys(yearly_counts.v) = Keys(yearly_avg_mag.v)

\* Two years, the only record of one of them without a magnitude; both
\* functions have returned.
C7_Witness ==
    /\ pc = "calls" /\ Len(features) = 2
    /\ ~IsNum(features[1].mag) /\ IsNum(features[2].mag)
    /\ YearAt(1) # YearAt(2)
    /\ yearly_counts.st = "ok" /\ yearly_avg_mag.st = "ok"

\* The records of year y, and those of them that have a magnitude.
RecordsOf(y) == SelectSeq(features, LAMBDA e : get_year(e, tz).v = y)

MagnitudesOf(y) ==
    LET having == SelectSeq(RecordsOf(y), LAMBDA e : IsNum(e.mag))
    IN [i \in 1..Len(having) |-> having[i].mag.n]

\* C3: average_magnitude_per_year maps every year of the collection to the
\* sum of the magnitudes of the records of that year divided by the number
\* of records of that year, none of them left out of either.
C3_MeanOverAllRecords ==
    (pc = "calls" /\ yearly_avg_mag.st = "ok") =>
        \A i \in Idx :
            \E r \in 1..Len(yearly_avg_mag.v) :
                LET row == yearly_avg_mag.v[r] IN
                /\ row.key = YearAt(i)
                /\ row.val.den > 0
                /\ row.val.num * Len(RecordsOf(row.key))
                       = row.val.den * SumOf(MagnitudesOf(row.key))

\* C3, for the collections in which every record has a number for its
\* magnitude: there the mean is taken over all records of the year.
C3_MeanWhenAllNumeric ==
    (pc = "calls" /\ yearly_avg_mag.st # "none" /\ AllNumeric /\ features # << >>) =>
        /\ yearly_avg_mag.st = "ok"
        /\ \A i \in Idx :
              \E r \in 1..Len(yearly_avg_mag.v) :
                  LET row == yearly_avg_mag.v[r] IN
                  /\ row.key = YearAt(i)
                  /\ row.val.den > 0
                  /\ row.val.num * Len(RecordsOf(row.key))
                         = row.val.den * SumOf(MagnitudesOf(row.key))

\* The example of the specification: years 2001, 2001, 2002 with magnitudes
\* 1, 3, 2 give the means 2 and 2.
C3_ExampleReached ==
    /\ pc = "calls" /\ Len(features) = 3
    /\ <<YearAt(1), YearAt(2), YearAt(3)>> = <<2001, 2001, 2002>>
    /\ <<features[1].mag, features[2].mag, features[3].mag>> = <<Num(1), Num(3), Num(2)>>
    /\ yearly_avg_mag = Ok(<<Row(2001, Frac(2, 1)), Row(2002, Frac(2, 1))>>)

LacksMagnitude(e) == e.mag.t = "absent"

LacksTime(e) == e.time.t = "absent"

LacksCoordinates(e) == e.coords.t = "absent"

\* C5: a record that lacks its magnitude, its time or its coordinates aborts
\* the run, wherever it sits: main does not complete on a collection that
\* holds such a record.
C5_MissingFieldAborts ==
    (data.hasFeatures /\ \E i \in Idx :
        LacksMagnitude(features[i]) \/ LacksTime(features[i])
            \/ LacksCoordinates(features[i]))
    => pc # "done"

\* C5 as amended: main does not complete on a collection that holds a record
\* without magnitude or without time; of the coordinates it needs those of
\* the record get_maximum selects (the first of the greatest magnitude), and
\* only those.
C5_MissingMagnitudeOrTimeAborts ==
    /\ (data.hasFeatures /\ \E i \in Idx :
           LacksMagnitude(features[i]) \/ LacksTime(features[i]))
       => pc # "done"
    /\ (pc = "done" /\ features # << >>) =>
           \E i \in Idx :
              /\ features[i].mag = maximum.v.mag
              /\ \A j \in 1..(i - 1) : features[j].mag # maximum.v.mag
              /\ features[i].coords.t = "list" /\ Len(features[i].coords.xs) >= 2
    /\ \A i \in Idx :
           (maximum.st = "ok" /\ ~(features[i].coords.t = "list" /\ Len(features[i].coords.xs) >= 2))
           => \E j \in Idx : j # i /\ IsNum(features[j].mag) /\ IsNum(features[i].mag)
                              /\ \/ features[j].mag.n > features[i].mag.n
                                 \/ features[j].mag.n = features[i].mag.n /\ j < i

\* The last of three records lacks its time, the others are whole: the run
\* got past get_maximum and then ended in KeyError.
C5_Witness ==
    /\ pc = "error" /\ error = "KeyError" /\ maximum.st = "ok"
    /\ Len(features) = 3
    /\ LacksTime(features[3])
    /\ ~LacksTime(features[1]) /\ ~LacksTime(features[2])

\* C8: for coordinates [lon, lat] or [lon, lat, alt] get_location returns
\* (lat, lon), the second element and then the first, without the third; for
\* fewer than 2 elements it raises.
C8_LocationIsLatLon ==
    (pc = "loc" /\ location.st # "none") =>
        LET c == features[1].coords IN
        /\ (c.t = "list" /\ Len(c.xs) \in {2, 3}) => location = Ok(<<c.xs[2], c.xs[1]>>)
        /\ (c.t = "list" /\ Len(c.xs) < 2) => location.st = "IndexError"

\* Three coordinates with different longitude and latitude, and the result.
C8_Witness ==
    /\ pc = "loc" /\ location.st = "ok"
    /\ features[1].coords.xs = <<10, 20, 5>>

NoAggregates ==
    /\ total.st = "none" /\ maximum.st = "none"
    /\ yearly_counts.st = "none" /\ yearly_avg_mag.st = "none"

RawFileComplete == rawfile = [st |-> "closed", body |-> response, full |-> TRUE]

\* C9: one fetch per run and no retry; the whole body is in the file and the
\* file closed before json.loads starts; aggregates and charts come only
\* after json.loads succeeded; a failed fetch leaves no file, a failed parse
\* leaves the complete file, no aggregate and no chart.
C9_FetchSaveParseOrder ==
    /\ fetches <= 1
    /\ pc # "start" => fetches = 1
    /\ (pc = "saved" \/ data.loaded \/ error = "JSONDecodeError") => RawFileComplete
    /\ (~NoAggregates \/ charts # {}) => (data.loaded /\ response.kind = "json")
    /\ error = "ConnectionError" => (rawfile = NoFile /\ NoAggregates /\ charts = {})
    /\ error = "JSONDecodeError" => (~data.loaded /\ NoAggregates /\ charts = {})

\* The response was no JSON: the run ended in json.loads.
C9_Witness ==
    pc = "error" /\ error = "JSONDecodeError" /\ response = NotJson /\ fetches = 1

\* C10: no aggregator changes the collection, and a function called again
\* returns what its first call returned, whatever was called in between.
C10_CallsRepeatable ==
    [][/\ data' = data
       /\ total.st # "none" => total' = total
       /\ maximum.st # "none" => maximum' = maximum
       /\ yearly_counts.st # "none" => yearly_counts' = yearly_counts
       /\ yearly_avg_mag.st # "none" => yearly_avg_mag' = yearly_avg_mag]_vars

\* All four functions have been called on three records that are not in
\* order of time and of which the last two share the greatest magnitude.
C10_Witness ==
    /\ pc = "calls" /\ Len(features) = 3
    /\ total.st = "ok" /\ maximum.st = "ok"
    /\ yearly_counts.st = "ok" /\ yearly_avg_mag.st = "ok"
    /\ YearAt(2) > YearAt(3)
    /\ features[2].mag = features[3].mag /\ features[1].mag.n < features[2].mag.n

====
